---- MODULE Spec2Model ----
(***************************************************************************)
(* Puck-catcher game: the simulation engine (Game.js, State.js, Physics.js,*)
(* Puck.js, Goalie.js, Goal.js, Confetti.js, input.js, Leaderboard.js) as  *)
(* a state machine.  Every browser task (an event handler, an animation-   *)
(* frame callback, the completion of a network request together with the   *)
(* promise continuations it releases) is one atomic action: JavaScript     *)
(* runs each to completion.                                                *)
(*                                                                         *)
(* Number representation (JavaScript doubles -> integers):                 *)
(*   - time is counted in clock units of 1/3 ms, so that the target frame  *)
(*     time 1000/60 ms is the integer FRAME = 50 and the 50 ms cap is 150; *)
(*   - delta, positions, velocities and the effect scalars are fixed-point *)
(*     with SCALE = 1000 (1.0 is 1000);                                    *)
(*   - products are rounded down (\div).                                   *)
(* What only the renderer reads (colours, particle positions, the position *)
(* of the catch text, DOM text) is left out.                               *)
(***************************************************************************)
EXTENDS Integers, Sequences, FiniteSets, TLC

(* ------------------------------------------------------------------ *)
(* Representation                                                       *)
(* ------------------------------------------------------------------ *)
SCALE == 1000
UNITS_PER_MS == 3

Min(a, b) == IF a < b THEN a ELSE b
Max(a, b) == IF a > b THEN a ELSE b
Abs(a) == IF a < 0 THEN -a ELSE a
\* fixed-point product of two SCALE-d numbers
Mul(a, b) == (a * b) \div SCALE

(* ------------------------------------------------------------------ *)
(* constants.js                                                         *)
(* ------------------------------------------------------------------ *)
CANVAS_WIDTH == 600 * SCALE
CANVAS_HEIGHT == 600 * SCALE

INITIAL_LIVES == 3
INITIAL_SPAWN_INTERVAL == 800 * UNITS_PER_MS
INITIAL_SPEED == 7000
DIFFICULTY_RAMP_INTERVAL == 6000 * UNITS_PER_MS
SPAWN_INTERVAL_DECREASE == 50 * UNITS_PER_MS
SPEED_INCREASE == 350
MIN_SPAWN_INTERVAL == 400 * UNITS_PER_MS
MAX_SPEED == 16000

PUCK_RADIUS == 7 * SCALE
PUCK_SPEED_VARIANCE == 1250
PUCK_SPAWN_MARGIN == 60 * SCALE
PUCK_SPAWN_Y == -30 * SCALE
PUCK_OFFSCREEN_MARGIN == 40 * SCALE
PUCK_HORIZONTAL_START_DELAY == 180 * SCALE

GOAL_WIDTH == 240 * SCALE
GOAL_HEIGHT == 80 * SCALE
GOAL_Y_OFFSET == 80 * SCALE

CONFETTI_COUNT == 18
CONFETTI_COUNT_GOLD == 44
CATCH_FLASH_DECAY == 90
CATCH_TEXT_DURATION == 30 * SCALE

\* Goalie.js
GOALIE_HEIGHT == 91 * SCALE
GOALIE_Y_OFFSET == 130 * SCALE
GOALIE_MOVE_EASING == 180
GOALIE_MARGIN == 60 * SCALE
GOALIE_CATCH_WIDTH == 110 * SCALE
GOALIE_CATCH_HEIGHT == 60 * SCALE
GOALIE_ANIMATION_DECAY == 80
GOALIE_Y == CANVAS_HEIGHT - GOALIE_Y_OFFSET

\* Game.js: targetFrameTime = 1000 / 60 ms, and the cap on a tick's elapsed time
FRAME == 50
ELAPSED_CAP == 50 * UNITS_PER_MS
\* input.js
KEYBOARD_SPEED == 10 * SCALE


(* ------------------------------------------------------------------ *)
(* State.js: GameState.  A GameState object is a record; a method is an *)
(* operator from the object to the object after the call.               *)
(* catchText is <<>> (null) or a one-element sequence <<[ttl, value]>>. *)
(* ------------------------------------------------------------------ *)
IDLE == "idle"
PLAYING == "playing"
PAUSED == "paused"
ENDED == "ended"
GameStatus == {IDLE, PLAYING, PAUSED, ENDED}

\* reset() keeps this.bestScore (|| 0: a fresh object has none)
GameState_reset(s) ==
  [status |-> IDLE, score |-> 0, lives |-> INITIAL_LIVES,
   bestScore |-> s.bestScore, frameCount |-> 0,
   spawnInterval |-> INITIAL_SPAWN_INTERVAL, speedBase |-> INITIAL_SPEED,
   spawnTimer |-> 0, difficultyTimer |-> 0, catchFlash |-> 0, catchText |-> <<>>]

GameState_new == GameState_reset([bestScore |-> 0])

isRunning(s) == s.status = PLAYING
isPaused(s) == s.status = PAUSED
isEnded(s) == s.status = ENDED
isIdle(s) == s.status = IDLE

GameState_start(s) == IF s.status = IDLE THEN [s EXCEPT !.status = PLAYING] ELSE s
\* a pause that does not look at the status
GameState_pause_always(s) == [s EXCEPT !.status = PAUSED]
GameState_pause(s) == IF s.status = PLAYING THEN [s EXCEPT !.status = PAUSED] ELSE s
GameState_resume(s) == IF s.status = PAUSED THEN [s EXCEPT !.status = PLAYING] ELSE s
GameState_togglePause(s) ==
  IF s.status = PLAYING THEN GameState_pause(s)
  ELSE IF s.status = PAUSED THEN GameState_resume(s)
  ELSE s
GameState_end(s) == [s EXCEPT !.status = ENDED]

\* a catch whose text reads "+1"
incrementScore_plusOne(s) ==
  [s EXCEPT !.score = s.score + 1,
            !.catchFlash = SCALE,
            !.catchText = <<[ttl |-> CATCH_TEXT_DURATION, value |-> 1]>>]

incrementScore(s) ==
  [s EXCEPT !.score = s.score + 1,
            !.catchFlash = SCALE,
            !.catchText = <<[ttl |-> CATCH_TEXT_DURATION, value |-> s.score + 1]>>]

\* lives--; the returned flag (lives <= 0) is gameOver(s) of the object after the call
decrementLives(s) == [s EXCEPT !.lives = s.lives - 1]
gameOver(s) == s.lives <= 0

\* a ramp step without the floor and the ceiling
updateDifficulty_unclamped(s, elapsedMs) ==
  LET t == s.difficultyTimer + elapsedMs IN
  IF t >= DIFFICULTY_RAMP_INTERVAL
    THEN [s EXCEPT !.difficultyTimer = 0,
                   !.spawnInterval = s.spawnInterval - SPAWN_INTERVAL_DECREASE,
                   !.speedBase = s.speedBase + SPEED_INCREASE]
    ELSE [s EXCEPT !.difficultyTimer = t]

\* a ramp step that carries the overshoot of the timer into the next interval
updateDifficulty_keepsRemainder(s, elapsedMs) ==
  LET t == s.difficultyTimer + elapsedMs IN
  IF t >= DIFFICULTY_RAMP_INTERVAL
    THEN [s EXCEPT !.difficultyTimer = t - DIFFICULTY_RAMP_INTERVAL,
                   !.spawnInterval = Max(MIN_SPAWN_INTERVAL, s.spawnInterval - SPAWN_INTERVAL_DECREASE),
                   !.speedBase = Min(MAX_SPEED, s.speedBase + SPEED_INCREASE)]
    ELSE [s EXCEPT !.difficultyTimer = t]

\* a ramp step only once the timer has passed the interval
updateDifficulty_strict(s, elapsedMs) ==
  LET t == s.difficultyTimer + elapsedMs IN
  IF t > DIFFICULTY_RAMP_INTERVAL
    THEN [s EXCEPT !.difficultyTimer = 0,
                   !.spawnInterval = Max(MIN_SPAWN_INTERVAL, s.spawnInterval - SPAWN_INTERVAL_DECREASE),
                   !.speedBase = Min(MAX_SPEED, s.speedBase + SPEED_INCREASE)]
    ELSE [s EXCEPT !.difficultyTimer = t]

updateDifficulty(s, elapsedMs) ==
  LET t == s.difficultyTimer + elapsedMs IN
  IF t >= DIFFICULTY_RAMP_INTERVAL
    THEN [s EXCEPT !.difficultyTimer = 0,
                   !.spawnInterval = Max(MIN_SPAWN_INTERVAL, s.spawnInterval - SPAWN_INTERVAL_DECREASE),
                   !.speedBase = Min(MAX_SPEED, s.speedBase + SPEED_INCREASE)]
    ELSE [s EXCEPT !.difficultyTimer = t]

\* effects whose flash fades at half the rate
updateEffects_slowFlash(s, delta) ==
  LET flash == Max(0, s.catchFlash - Mul(CATCH_FLASH_DECAY \div 2, delta))
      text == IF s.catchText = <<>> THEN <<>>
              ELSE IF s.catchText[1].ttl - delta <= 0 THEN <<>>
              ELSE <<[s.catchText[1] EXCEPT !.ttl = s.catchText[1].ttl - delta]>>
  IN [s EXCEPT !.catchFlash = flash, !.catchText = text]

updateEffects(s, delta) ==
  LET flash == Max(0, s.catchFlash - Mul(CATCH_FLASH_DECAY, delta))
      text == IF s.catchText = <<>> THEN <<>>
              ELSE IF s.catchText[1].ttl - delta <= 0 THEN <<>>
              ELSE <<[s.catchText[1] EXCEPT !.ttl = s.catchText[1].ttl - delta]>>
  IN [s EXCEPT !.catchFlash = flash, !.catchText = text]

\* a spawner that waits until the timer has passed the interval
shouldSpawn_strict(s, elapsedMs) ==
  LET t == s.spawnTimer + elapsedMs IN
  IF t > s.spawnInterval
    THEN [state |-> [s EXCEPT !.spawnTimer = 0], spawn |-> TRUE]
    ELSE [state |-> [s EXCEPT !.spawnTimer = t], spawn |-> FALSE]

\* shouldSpawn returns a flag and moves the timer: [state, spawn]
shouldSpawn(s, elapsedMs) ==
  LET t == s.spawnTimer + elapsedMs IN
  IF t >= s.spawnInterval
    THEN [state |-> [s EXCEPT !.spawnTimer = 0], spawn |-> TRUE]
    ELSE [state |-> [s EXCEPT !.spawnTimer = t], spawn |-> FALSE]

GameState_tick(s, delta) == [s EXCEPT !.frameCount = s.frameCount + delta]
setBestScore(s, best) == [s EXCEPT !.bestScore = best]
updateBestScore(s) == IF s.score > s.bestScore THEN [s EXCEPT !.bestScore = s.score] ELSE s

(* ------------------------------------------------------------------ *)
(* Goal.js                                                              *)
(* ------------------------------------------------------------------ *)
GOAL_X == CANVAS_WIDTH \div 2
GOAL_Y == CANVAS_HEIGHT - GOAL_Y_OFFSET
Goal_new == [goalFlash |-> 0]
\* a goal that does not flash
triggerGoal_noFlash(g) == g
triggerGoal(g) == [g EXCEPT !.goalFlash = SCALE]
Goal_update(g, delta) ==
  IF g.goalFlash > 0
    THEN [g EXCEPT !.goalFlash = Max(0, g.goalFlash - Mul(CATCH_FLASH_DECAY, delta))]
    ELSE g
Goal_reset(g) == [g EXCEPT !.goalFlash = 0]
Goal_getBounds ==
  [left |-> GOAL_X - GOAL_WIDTH \div 2, right |-> GOAL_X + GOAL_WIDTH \div 2,
   top |-> GOAL_Y, bottom |-> GOAL_Y + GOAL_HEIGHT]

(* ------------------------------------------------------------------ *)
(* Goalie.js                                                            *)
(* ------------------------------------------------------------------ *)
clamp(value, lo, hi) == Max(lo, Min(hi, value))
lerp(start, end, factor) == start + Mul(end - start, factor)

\* Math.pow(base, delta) for a delta of whole frames
RECURSIVE PowFrames(_, _)
PowFrames(base, frames) == IF frames <= 0 THEN SCALE ELSE Mul(base, PowFrames(base, frames - 1))

Goalie_new == [x |-> CANVAS_WIDTH \div 2, catchFlash |-> 0, catchAnimation |-> 0]
\* a goalie that follows the target wherever it is
Goalie_update_unclamped(g, targetX, delta) ==
  LET adjustedEasing == SCALE - PowFrames(SCALE - GOALIE_MOVE_EASING, delta \div SCALE)
  IN [x |-> lerp(g.x, targetX, adjustedEasing),
      catchAnimation |-> IF g.catchAnimation > 0
                           THEN g.catchAnimation - Mul(GOALIE_ANIMATION_DECAY, delta)
                           ELSE g.catchAnimation,
      catchFlash |-> IF g.catchFlash > 0
                       THEN g.catchFlash - Mul(CATCH_FLASH_DECAY, delta)
                       ELSE g.catchFlash]
Goalie_update(g, targetX, delta) ==
  LET clampedTarget == clamp(targetX, GOALIE_MARGIN, CANVAS_WIDTH - GOALIE_MARGIN)
      adjustedEasing == SCALE - PowFrames(SCALE - GOALIE_MOVE_EASING, delta \div SCALE)
  IN [x |-> lerp(g.x, clampedTarget, adjustedEasing),
      catchAnimation |-> IF g.catchAnimation > 0
                           THEN g.catchAnimation - Mul(GOALIE_ANIMATION_DECAY, delta)
                           ELSE g.catchAnimation,
      catchFlash |-> IF g.catchFlash > 0
                       THEN g.catchFlash - Mul(CATCH_FLASH_DECAY, delta)
                       ELSE g.catchFlash]
triggerCatch(g) == [g EXCEPT !.catchAnimation = SCALE, !.catchFlash = SCALE]
getCatchBounds(g) ==
  [left |-> g.x - GOALIE_CATCH_WIDTH \div 2, right |-> g.x + GOALIE_CATCH_WIDTH \div 2,
   top |-> GOALIE_Y - GOALIE_HEIGHT \div 2,
   bottom |-> GOALIE_Y - GOALIE_HEIGHT \div 2 + GOALIE_CATCH_HEIGHT]
\* a reset that only recentres the goalie and leaves its animation scalars
Goalie_reset_positionOnly(g) == [g EXCEPT !.x = CANVAS_WIDTH \div 2]
Goalie_reset(g) == [x |-> CANVAS_WIDTH \div 2, catchFlash |-> 0, catchAnimation |-> 0]

(* ------------------------------------------------------------------ *)
(* Physics.js                                                           *)
(* ------------------------------------------------------------------ *)
checkGoalieCatch(puck, g) ==
  LET bounds == getCatchBounds(g) IN
  /\ puck.x >= bounds.left /\ puck.x <= bounds.right
  /\ puck.y >= bounds.top /\ puck.y <= bounds.bottom

\* a goal test that looks at the depth only
checkPuckInGoal_anyWidth(puck) ==
  LET bounds == Goal_getBounds IN
  /\ puck.y >= bounds.top /\ puck.y <= bounds.bottom

checkPuckInGoal(puck) ==
  LET bounds == Goal_getBounds IN
  /\ puck.x >= bounds.left /\ puck.x <= bounds.right
  /\ puck.y >= bounds.top /\ puck.y <= bounds.bottom

(* ------------------------------------------------------------------ *)
(* Puck.js.  The constructor draws a spawn place, an aim deviation and  *)
(* a speed from Math.random(); here they come from SpawnChoices.  Each  *)
(* choice carries the unit direction (cos, sin of the aim angle         *)
(* atan2(goalCenterY - y, goalCenterX - x) + dev, times 10^4), computed *)
(* beforehand from its place and deviation:                             *)
(*   top, x = 300, dev 0         straight down the middle               *)
(*   top, x = 60, dev +0.07 rad  passes left of a centred goalie        *)
(*   left side, y = 200, dev +0.07 rad                                  *)
(*   top, x = 60, dev -0.199 rad passes right of goalie and goal (a     *)
(*                               deviation possible at full difficulty) *)
(* dev is in 1/1000 rad, speedRand is Math.random() * SPEED_VARIANCE.   *)
(* ------------------------------------------------------------------ *)
DIRSCALE == 10000
SpawnChoices ==
  { [x |-> 300 * SCALE, y |-> PUCK_SPAWN_Y, cosA |-> 0, sinA |-> 10000, dev |-> 0, speedRand |-> 0],
    [x |-> PUCK_SPAWN_MARGIN, y |-> PUCK_SPAWN_Y, cosA |-> 3111, sinA |-> 9504, dev |-> 70, speedRand |-> 0],
    [x |-> -PUCK_RADIUS, y |-> 200 * SCALE, cosA |-> 5941, sinA |-> 8044, dev |-> 70, speedRand |-> 1000],
    [x |-> PUCK_SPAWN_MARGIN, y |-> PUCK_SPAWN_Y, cosA |-> 5525, sinA |-> 8335, dev |-> -199, speedRand |-> 0] }

\* Game.update: difficultyFactor = min(1, max(0, frameCount - HORIZONTAL_START_DELAY) / 600)
difficultyFactor(s) == Min(SCALE, Max(0, s.frameCount - PUCK_HORIZONTAL_START_DELAY) \div 600)
\* aimSpread = 0.15 + difficultyFactor * 0.25, in 1/1000 rad
aimSpread(df) == 150 + Mul(df, 250)
\* the deviation (Math.random() - 0.5) * aimSpread lies in [-aimSpread/2, aimSpread/2)
SpawnPossible(c, df) == 2 * Abs(c.dev) < aimSpread(df)

\* a puck that is created fully stretched
Puck_new_stretched(speedBase, c) ==
  LET totalSpeed == speedBase + c.speedRand
      vy0 == (c.sinA * totalSpeed) \div DIRSCALE
  IN [x |-> c.x, y |-> c.y,
      vx |-> (c.cosA * totalSpeed) \div DIRSCALE,
      vy |-> IF vy0 < speedBase \div 2 THEN speedBase \div 2 ELSE vy0,
      caught |-> FALSE, scored |-> FALSE, squash |-> SCALE, markedForRemoval |-> FALSE]

Puck_new(speedBase, c) ==
  LET totalSpeed == speedBase + c.speedRand
      vy0 == (c.sinA * totalSpeed) \div DIRSCALE
  IN [x |-> c.x, y |-> c.y,
      vx |-> (c.cosA * totalSpeed) \div DIRSCALE,
      vy |-> IF vy0 < speedBase \div 2 THEN speedBase \div 2 ELSE vy0,
      caught |-> FALSE, scored |-> FALSE, squash |-> 0, markedForRemoval |-> FALSE]

\* a puck that air drag slows down as it falls
Puck_update_drag(p, delta) ==
  LET y1 == p.y + Mul(p.vy, delta)
      x1 == p.x + Mul(p.vx, delta)
      vy1 == p.vy - Mul(p.vy \div 100, delta)
  IN IF x1 - PUCK_RADIUS < 0
       THEN [p EXCEPT !.y = y1, !.x = PUCK_RADIUS, !.vx = Abs(p.vx), !.vy = vy1]
     ELSE IF x1 + PUCK_RADIUS > CANVAS_WIDTH
       THEN [p EXCEPT !.y = y1, !.x = CANVAS_WIDTH - PUCK_RADIUS, !.vx = -Abs(p.vx), !.vy = vy1]
     ELSE [p EXCEPT !.y = y1, !.x = x1, !.vy = vy1]

\* a puck that the side walls do not hold
Puck_update_noWalls(p, delta) ==
  [p EXCEPT !.y = p.y + Mul(p.vy, delta), !.x = p.x + Mul(p.vx, delta)]

Puck_update(p, delta) ==
  LET y1 == p.y + Mul(p.vy, delta)
      x1 == p.x + Mul(p.vx, delta)
  IN IF x1 - PUCK_RADIUS < 0
       THEN [p EXCEPT !.y = y1, !.x = PUCK_RADIUS, !.vx = Abs(p.vx)]
     ELSE IF x1 + PUCK_RADIUS > CANVAS_WIDTH
       THEN [p EXCEPT !.y = y1, !.x = CANVAS_WIDTH - PUCK_RADIUS, !.vx = -Abs(p.vx)]
     ELSE [p EXCEPT !.y = y1, !.x = x1]

\* Physics.js, calculateSquash: the squash factor it documents is 0 to 0.24.
\* Nothing calls it, so a puck keeps the squash its constructor gave it.
SQUASH_MAX == 240

isOffScreen(p) == p.y > CANVAS_HEIGHT + PUCK_OFFSCREEN_MARGIN
\* a catch that forgets to mark the puck for removal
Puck_catch_flagOnly(p) == [p EXCEPT !.caught = TRUE]
Puck_catch(p) == [p EXCEPT !.caught = TRUE, !.markedForRemoval = TRUE]

(* ------------------------------------------------------------------ *)
(* Confetti.js.  The particles of one burst that share a life are kept  *)
(* as one group [life, n, gold]: particles.length is the sum of the n.  *)
(* life = (isGold ? 62 : 42) + Math.random() * 22; the random part is    *)
(* drawn from LifeChoices.                                              *)
(* ------------------------------------------------------------------ *)
LifeChoices == {0, 21 * SCALE}
ConfettiLife(isGold, r) == (IF isGold THEN 62 * SCALE ELSE 42 * SCALE) + r

Confetti_spawn(particles, isGold, r) ==
  Append(particles, [life |-> ConfettiLife(isGold, r),
                     n |-> IF isGold THEN CONFETTI_COUNT_GOLD ELSE CONFETTI_COUNT,
                     gold |-> isGold])

Confetti_update(particles, delta) ==
  LET moved == [i \in 1..Len(particles) |-> [particles[i] EXCEPT !.life = particles[i].life - delta]]
  IN SelectSeq(moved, LAMBDA g : g.life > 0)

RECURSIVE SumN(_)
SumN(particles) == IF particles = <<>> THEN 0 ELSE Head(particles).n + SumN(Tail(particles))
Confetti_count(particles) == SumN(particles)

(* ------------------------------------------------------------------ *)
(* input.js: InputHandler                                               *)
(* ------------------------------------------------------------------ *)
Input_new == [targetX |-> CANVAS_WIDTH \div 2, left |-> FALSE, right |-> FALSE]
\* a tracker in which the right key wins over the left key
Input_update_rightWins(i) ==
  IF i.right THEN [i EXCEPT !.targetX = i.targetX + KEYBOARD_SPEED]
  ELSE IF i.left THEN [i EXCEPT !.targetX = i.targetX - KEYBOARD_SPEED]
  ELSE i
Input_update(i) ==
  LET a == IF i.left THEN i.targetX - KEYBOARD_SPEED ELSE i.targetX
      b == IF i.right THEN a + KEYBOARD_SPEED ELSE a
  IN [i EXCEPT !.targetX = b]
Input_reset(i) == [targetX |-> CANVAS_WIDTH \div 2, left |-> FALSE, right |-> FALSE]

(* ------------------------------------------------------------------ *)
(* Leaderboard.js (the class with local storage, lines 123-344).  Of    *)
(* the stored entries only the highest score is ever read back          *)
(* (getBestScore), so the store is kept as that maximum, localBest.     *)
(* present is FALSE when Game has no leaderboard (no boardBody).        *)
(* ------------------------------------------------------------------ *)
getBestScore(lb) == lb.localBest
addScoreLocal(lb, sc) == [lb EXCEPT !.localBest = Max(lb.localBest, sc)]

(* ------------------------------------------------------------------ *)
(* Bounds of the model                                                  *)
(* ------------------------------------------------------------------ *)
\* frames of play (state.frameCount) simulated in the first playthrough of a
\* run, and in each playthrough after a restart
MaxFrames == 280
MaxFramesLater == 60
\* restart() calls in one run
MaxRestarts == 1
\* animation-frame callbacks pending at once
MaxPending == 2
\* end() calls waiting for their score submission at once
MaxPendingEnds == 2

\* timestamp - lastTime of a tick, in clock units: a callback in the frame
\* in which lastTime was taken, a display that refreshes every 50 ms, and a
\* longer gap (a suspended tab) that the cap cuts to 50 ms
Gaps == {0, 3 * FRAME, 6 * FRAME}
\* where a mouse or touch sample puts the target
TargetChoices == {150 * SCALE}
\* best scores found at start-up: in local storage, and in the API's player data
LocalBestChoices == {0}
ApiBestChoices == {0, 2}

(* ------------------------------------------------------------------ *)
(* Game.js: the state                                                   *)
(* ------------------------------------------------------------------ *)
VARIABLES
  state,        \* Game.state: the GameState object
  pucks,        \* Game.pucks: sequence of Puck objects, in array order
  confetti,     \* Game.confetti.particles
  goalie,       \* Game.goalie
  goal,         \* Game.goal
  input,        \* Game.input
  leaderboard,  \* Game.leaderboard: [present, useApi, localBest]
  endOverlay,   \* Game.endOverlay: <<>> (null) or <<[isAllTime, score]>>
  buttonBounds, \* Game.buttonBounds as left by the last draw(): "none", "start", "playAgain"
  raf,          \* animation frames: [id, current, orphans], see RequestFrame
  pendingEnds,  \* Game.end() calls suspended at `await leaderboard.addScore(...)`
  initPending,  \* Game.init() is suspended at `await leaderboard.init()`
  apiBest,      \* player.bestScore in the API's answer to init (0: none)
  endInvoked,   \* history: Game.end() invocations since the last restart()
  atEnd,        \* history: <<>>, or <<[score, lives, bestScore]>> as they were when
                \* Game.end() was first invoked since the last restart()
  restarts,     \* history: restart() calls so far
  sinceLastTime, \* performance.now() - Game.lastTime, in clock units
  resolved      \* history: the pucks that the update() of the step just taken
                \* filtered out of Game.pucks, as they were then (<<>> if none)

vars == <<state, pucks, confetti, goalie, goal, input, leaderboard, endOverlay,
          buttonBounds, raf, pendingEnds, initPending, apiBest, endInvoked, atEnd, restarts,
          sinceLastTime, resolved>>

(* ------------------------------------------------------------------ *)
(* requestAnimationFrame / cancelAnimationFrame.  All callbacks are the *)
(* same closure, so the set of pending callbacks is kept as: is the one *)
(* that Game.animationId names still pending (current), and how many    *)
(* others are pending (orphans: scheduled, never cancelled, and no      *)
(* longer named by animationId).  id is FALSE while animationId is null.*)
(* ------------------------------------------------------------------ *)
NoFrames == [id |-> FALSE, current |-> FALSE, orphans |-> 0]
RequestFrame(r) ==
  [id |-> TRUE, current |-> TRUE, orphans |-> r.orphans + (IF r.current THEN 1 ELSE 0)]
CancelFrame(r) == [r EXCEPT !.current = FALSE]
PendingFrames(r) == r.orphans + (IF r.current THEN 1 ELSE 0)

\* Game.draw(): what is recorded of it is the overlay buttons it leaves
draw(s) == IF isIdle(s) THEN "start" ELSE IF isEnded(s) THEN "playAgain" ELSE "none"

(* ------------------------------------------------------------------ *)
(* Game.end().  w is the part of the game the frame step works on:      *)
(* [state, pucks, confetti, goalie, goal, input, leaderboard,           *)
(*  endOverlay, buttonBounds, raf, pendingEnds, endInvoked, atEnd,      *)
(*  sinceLastTime, resolved].                                           *)
(* endOverlay keeps isAllTime and the score its subtitle shows.         *)
(* ------------------------------------------------------------------ *)
\* end() after its await: lines 224-257
Game_endFinish(w, isAllTimeRecord, r) ==
  LET s1 == updateBestScore(w.state)
      c1 == IF isAllTimeRecord
              THEN Confetti_spawn(Confetti_spawn(Confetti_spawn(w.confetti, TRUE, r), TRUE, r), TRUE, r)
              ELSE w.confetti
  IN [w EXCEPT !.state = GameState_end(s1),
               !.endOverlay = <<[isAllTime |-> isAllTimeRecord, score |-> w.state.score]>>,
               !.confetti = c1]

\* end() up to its await (lines 214-222); without a leaderboard there is no
\* await and the whole body runs at once.  addScore itself runs up to its own
\* await: with useApi the request is sent, without it addScoreLocal has stored
\* the score before end() is suspended.
Game_end(w, r) ==
  LET previousBest == IF w.leaderboard.present THEN getBestScore(w.leaderboard) ELSE w.state.bestScore
      isAllTimeRecord == w.state.score > previousBest
      w1 == [w EXCEPT !.endInvoked = @ + 1,
                      !.atEnd = IF @ = <<>>
                                  THEN <<[score |-> w.state.score, lives |-> w.state.lives,
                                          bestScore |-> w.state.bestScore]>>
                                  ELSE @]
      call == [isAllTimeRecord |-> isAllTimeRecord, score |-> w.state.score,
               viaApi |-> w.leaderboard.useApi]
  IN IF w.leaderboard.present
       THEN IF w.leaderboard.useApi
              THEN [w1 EXCEPT !.pendingEnds = Append(@, call)]
              ELSE [w1 EXCEPT !.leaderboard = addScoreLocal(@, w.state.score),
                              !.pendingEnds = Append(@, call)]
       ELSE Game_endFinish(w1, isAllTimeRecord, r)

\* The promise continuations that are ready when a task returns: the end()
\* calls whose addScore did not go to the network resume, in call order.
RECURSIVE DrainMicrotasks(_, _)
DrainMicrotasks(w, r) ==
  IF \E i \in 1..Len(w.pendingEnds) : ~w.pendingEnds[i].viaApi
    THEN LET i == CHOOSE j \in 1..Len(w.pendingEnds) :
                    /\ ~w.pendingEnds[j].viaApi
                    /\ \A k \in 1..(j - 1) : w.pendingEnds[k].viaApi
             rest == [k \in 1..(Len(w.pendingEnds) - 1) |->
                        IF k < i THEN w.pendingEnds[k] ELSE w.pendingEnds[k + 1]]
         IN DrainMicrotasks(
              Game_endFinish([w EXCEPT !.pendingEnds = rest], w.pendingEnds[i].isAllTimeRecord, r), r)
    ELSE w

(* ------------------------------------------------------------------ *)
(* Game.update(delta, elapsedMs)                                        *)
(* ------------------------------------------------------------------ *)
\* the for loop over this.pucks (lines 283-310), from index i on
RECURSIVE UpdatePucks(_, _, _, _)
UpdatePucks(w, i, delta, r) ==
  IF i > Len(w.pucks) THEN w
  ELSE
    LET p1 == Puck_update(w.pucks[i], delta)
        w1 == [w EXCEPT !.pucks[i] = p1]
    IN IF p1.caught \/ p1.scored THEN UpdatePucks(w1, i + 1, delta, r)
       ELSE IF checkPuckInGoal(p1)
         THEN LET w2 == [w1 EXCEPT !.pucks[i] = [p1 EXCEPT !.scored = TRUE, !.markedForRemoval = TRUE],
                                   !.goal = triggerGoal(@),
                                   !.state = decrementLives(@)]
                  w3 == IF gameOver(w2.state) THEN Game_end(w2, r) ELSE w2
              IN UpdatePucks(w3, i + 1, delta, r)
       ELSE IF checkGoalieCatch(p1, w1.goalie)
         THEN UpdatePucks([w1 EXCEPT !.pucks[i] = Puck_catch(p1),
                                     !.goalie = triggerCatch(@),
                                     !.confetti = Confetti_spawn(@, FALSE, r),
                                     !.state = incrementScore(@)],
                          i + 1, delta, r)
       ELSE UpdatePucks(w1, i + 1, delta, r)

\* a filter that drops only the pucks that left the screen
RemovePucks_offScreenOnly(ps) == SelectSeq(ps, LAMBDA p : ~isOffScreen(p))
\* lines 315-325
RemovePucks(ps) == SelectSeq(ps, LAMBDA p : ~p.markedForRemoval /\ ~isOffScreen(p))

\* c: the spawn choice used if a puck is spawned; r: the random part of
\* the life of the confetti spawned in this step
Game_update(w, delta, elapsedMs, c, r) ==
  LET input1 == Input_update(w.input)
      goalie1 == Goalie_update(w.goalie, input1.targetX, delta)
      sp == shouldSpawn(w.state, elapsedMs)
      pucks1 == IF sp.spawn THEN Append(w.pucks, Puck_new(sp.state.speedBase, c)) ELSE w.pucks
      state2 == updateDifficulty(sp.state, elapsedMs)
      w1 == UpdatePucks([w EXCEPT !.input = input1, !.goalie = goalie1,
                                  !.pucks = pucks1, !.state = state2], 1, delta, r)
  IN [w1 EXCEPT !.pucks = RemovePucks(w1.pucks),
                !.resolved = SelectSeq(w1.pucks, LAMBDA p : p.markedForRemoval \/ isOffScreen(p)),
                !.confetti = Confetti_update(w1.confetti, delta),
                !.goal = Goal_update(w1.goal, delta),
                !.state = GameState_tick(updateEffects(w1.state, delta), delta)]

(* ------------------------------------------------------------------ *)
(* Game.loop(timestamp), with gap = timestamp - this.lastTime           *)
(* ------------------------------------------------------------------ *)
\* a loop that takes the whole gap as the elapsed time
Game_loop_uncapped(w, gap, c, r) ==
  LET elapsedMs == gap
      delta == (elapsedMs * SCALE) \div FRAME
      w0 == [w EXCEPT !.sinceLastTime = 0]
  IN IF ~isRunning(w.state)
       THEN IF isEnded(w.state)
              THEN LET c1 == Confetti_update(w.confetti, delta)
                   IN [w0 EXCEPT !.confetti = c1,
                                 !.buttonBounds = draw(w.state),
                                 !.raf = IF Confetti_count(c1) > 0 THEN RequestFrame(@) ELSE @]
              ELSE w0
       ELSE LET w1 == Game_update(w0, delta, elapsedMs, c, r)
            IN [w1 EXCEPT !.buttonBounds = draw(w1.state), !.raf = RequestFrame(@)]

Game_loop(w, gap, c, r) ==
  LET elapsedMs == Min(gap, ELAPSED_CAP)
      delta == (elapsedMs * SCALE) \div FRAME
      w0 == [w EXCEPT !.sinceLastTime = 0]
  IN IF ~isRunning(w.state)
       THEN IF isEnded(w.state)
              THEN LET c1 == Confetti_update(w.confetti, delta)
                   IN [w0 EXCEPT !.confetti = c1,
                                 !.buttonBounds = draw(w.state),
                                 !.raf = IF Confetti_count(c1) > 0 THEN RequestFrame(@) ELSE @]
              ELSE w0
       ELSE LET w1 == Game_update(w0, delta, elapsedMs, c, r)
            IN [w1 EXCEPT !.buttonBounds = draw(w1.state), !.raf = RequestFrame(@)]

(* ------------------------------------------------------------------ *)
(* Game.start(), togglePause(), restart(), handleCanvasClick()          *)
(* ------------------------------------------------------------------ *)
Game_start(w) ==
  IF isRunning(w.state) THEN w
  ELSE [w EXCEPT !.state = GameState_start(@), !.sinceLastTime = 0, !.raf = RequestFrame(@)]

\* a resume that leaves lastTime as the last frame set it
Game_togglePause_keepsLastTime(w) ==
  IF ~isRunning(w.state) /\ ~isPaused(w.state) THEN w
  ELSE LET s1 == GameState_togglePause(w.state)
       IN [w EXCEPT !.state = s1,
                    !.raf = IF ~isPaused(s1) THEN RequestFrame(@) ELSE @]

Game_togglePause(w) ==
  IF ~isRunning(w.state) /\ ~isPaused(w.state) THEN w
  ELSE LET s1 == GameState_togglePause(w.state)
       IN [w EXCEPT !.state = s1,
                    !.sinceLastTime = IF ~isPaused(s1) THEN 0 ELSE @,
                    !.raf = IF ~isPaused(s1) THEN RequestFrame(@) ELSE @]

Game_restart(w) ==
  LET s0 == GameState_reset(w.state)
      s1 == IF w.leaderboard.present THEN setBestScore(s0, getBestScore(w.leaderboard)) ELSE s0
  IN [w EXCEPT !.raf = IF w.raf.id THEN [CancelFrame(w.raf) EXCEPT !.id = FALSE] ELSE w.raf,
               !.state = s1,
               !.pucks = <<>>,
               !.confetti = <<>>,
               !.goalie = Goalie_reset(@),
               !.goal = Goal_reset(@),
               !.input = Input_reset(@),
               !.endOverlay = <<>>,
               !.buttonBounds = draw(s1),
               !.endInvoked = 0,
               !.atEnd = <<>>]

\* a click inside the one button the overlay shows
handleCanvasClick(w) ==
  IF w.buttonBounds = "none" THEN w
  ELSE IF isIdle(w.state) /\ w.buttonBounds = "start" THEN Game_start(w)
  ELSE IF isEnded(w.state) /\ w.buttonBounds = "playAgain" THEN Game_start(Game_restart(w))
  ELSE w

(* ------------------------------------------------------------------ *)
(* The state machine                                                    *)
(* ------------------------------------------------------------------ *)
World ==
  [state |-> state, pucks |-> pucks, confetti |-> confetti, goalie |-> goalie,
   goal |-> goal, input |-> input, leaderboard |-> leaderboard,
   endOverlay |-> endOverlay, buttonBounds |-> buttonBounds, raf |-> raf,
   pendingEnds |-> pendingEnds, endInvoked |-> endInvoked, atEnd |-> atEnd,
   sinceLastTime |-> sinceLastTime, resolved |-> <<>>]

Becomes(w) ==
  /\ state' = w.state
  /\ pucks' = w.pucks
  /\ confetti' = w.confetti
  /\ goalie' = w.goalie
  /\ goal' = w.goal
  /\ input' = w.input
  /\ leaderboard' = w.leaderboard
  /\ endOverlay' = w.endOverlay
  /\ buttonBounds' = w.buttonBounds
  /\ raf' = w.raf
  /\ pendingEnds' = w.pendingEnds
  /\ endInvoked' = w.endInvoked
  /\ atEnd' = w.atEnd
  /\ sinceLastTime' = w.sinceLastTime
  /\ resolved' = w.resolved

WithinBounds(w) ==
  /\ PendingFrames(w.raf) <= MaxPending
  /\ Len(w.pendingEnds) <= MaxPendingEnds

\* new Game(canvas, elements): the constructor runs init(), which without a
\* leaderboard has no await and draws the idle overlay at once
Init ==
  /\ state = GameState_new
  /\ pucks = <<>>
  /\ confetti = <<>>
  /\ goalie = Goalie_new
  /\ goal = Goal_new
  /\ input = Input_new
  /\ endOverlay = <<>>
  /\ raf = NoFrames
  /\ pendingEnds = <<>>
  /\ endInvoked = 0
  /\ atEnd = <<>>
  /\ restarts = 0
  /\ sinceLastTime = 0
  /\ resolved = <<>>
  /\ \/ /\ leaderboard = [present |-> FALSE, useApi |-> FALSE, localBest |-> 0]
        /\ initPending = FALSE
        /\ apiBest = 0
        /\ buttonBounds = "start"
     \/ /\ \E b \in LocalBestChoices :
             leaderboard = [present |-> TRUE, useApi |-> FALSE, localBest |-> b]
        /\ initPending = TRUE
        /\ apiBest \in ApiBestChoices
        /\ buttonBounds = "none"

\* Game.init() resumes after `await this.leaderboard.init()` (lines 115-129);
\* apiOk: the API answered init with a leaderboard
InitDone(apiOk) ==
  /\ initPending
  /\ initPending' = FALSE
  /\ LET lb == [leaderboard EXCEPT !.useApi = apiOk]
         s1 == IF apiOk /\ apiBest > 0
                 THEN setBestScore(state, apiBest)
                 ELSE setBestScore(state, getBestScore(lb))
     IN Becomes([World EXCEPT !.leaderboard = lb, !.state = s1, !.buttonBounds = draw(s1)])
  /\ UNCHANGED <<apiBest, restarts>>

Start ==
  /\ ~isRunning(state)
  /\ WithinBounds(Game_start(World))
  /\ Becomes(Game_start(World))
  /\ UNCHANGED <<initPending, apiBest, restarts>>

TogglePause ==
  /\ isRunning(state) \/ isPaused(state)
  /\ WithinBounds(Game_togglePause(World))
  /\ Becomes(Game_togglePause(World))
  /\ UNCHANGED <<initPending, apiBest, restarts>>

Restart ==
  /\ restarts < MaxRestarts
  /\ Becomes(Game_restart(World))
  /\ restarts' = restarts + 1
  /\ UNCHANGED <<initPending, apiBest>>

CanvasClick ==
  /\ handleCanvasClick(World) # World
  /\ isEnded(state) => restarts < MaxRestarts
  /\ WithinBounds(handleCanvasClick(World))
  /\ Becomes(handleCanvasClick(World))
  /\ restarts' = IF isEnded(state) THEN restarts + 1 ELSE restarts
  /\ UNCHANGED <<initPending, apiBest>>

\* mousemove / touchmove / touchstart; here the pointer is placed while the
\* idle overlay shows and rests during play
MouseMove(x) ==
  /\ isIdle(state)
  /\ input.targetX # x
  /\ input' = [input EXCEPT !.targetX = x]
  /\ resolved' = <<>>
  /\ UNCHANGED <<state, pucks, confetti, goalie, goal, leaderboard, endOverlay,
                 buttonBounds, raf, pendingEnds, initPending, apiBest, endInvoked, atEnd, restarts,
                 sinceLastTime>>

\* An animation-frame callback fires, gap clock units after the previous
\* task: the one animationId names (orphan = FALSE) or another pending one.
\* The whole of loop() runs, then the ready promise continuations.  While
\* Playing it fires only before frameCount has reached limit frames.
TickWithin(limit, orphan, gap, c, r) ==
  /\ IF orphan THEN raf.orphans > 0 ELSE raf.current
  /\ isRunning(state) => state.frameCount < SCALE * limit
  /\ LET fired == IF orphan THEN [raf EXCEPT !.orphans = @ - 1] ELSE [raf EXCEPT !.current = FALSE]
         w == DrainMicrotasks(Game_loop([World EXCEPT !.raf = fired], sinceLastTime + gap, c, r), r)
     IN /\ WithinBounds(w)
        /\ Becomes(w)
  /\ UNCHANGED <<initPending, apiBest, restarts>>

Tick(orphan, gap, c, r) ==
  TickWithin(IF restarts = 0 THEN MaxFrames ELSE MaxFramesLater, orphan, gap, c, r)

\* The request of the i-th suspended end() completes: addScore resumes (on a
\* failed submission it stores the score locally), then end() resumes.
SubmitDone(i, ok, r) ==
  /\ i \in 1..Len(pendingEnds)
  /\ LET e == pendingEnds[i]
         rest == [k \in 1..(Len(pendingEnds) - 1) |->
                    IF k < i THEN pendingEnds[k] ELSE pendingEnds[k + 1]]
         lb == IF ok THEN leaderboard ELSE addScoreLocal(leaderboard, e.score)
     IN Becomes(Game_endFinish([World EXCEPT !.pendingEnds = rest, !.leaderboard = lb],
                               e.isAllTimeRecord, r))
  /\ UNCHANGED <<initPending, apiBest, restarts>>

\* the random draws a tick can use: a spawn choice when the spawner fires, a
\* confetti life when a puck can be caught or the game can end
SpawnDraws(gap) ==
  IF isRunning(state) /\ shouldSpawn(state, Min(sinceLastTime + gap, ELAPSED_CAP)).spawn
    THEN {c \in SpawnChoices : SpawnPossible(c, difficultyFactor(state))}
    ELSE {CHOOSE c \in SpawnChoices : c.dev = 0}
LifeDraws == IF isRunning(state) /\ pucks # <<>> THEN LifeChoices ELSE {CHOOSE r \in LifeChoices : TRUE}
SubmitLifeDraws(i) ==
  IF i \in 1..Len(pendingEnds) /\ pendingEnds[i].isAllTimeRecord
    THEN LifeChoices ELSE {CHOOSE r \in LifeChoices : TRUE}

Next ==
  \/ \E apiOk \in BOOLEAN : InitDone(apiOk)
  \/ Start
  \/ TogglePause
  \/ Restart
  \/ CanvasClick
  \/ \E x \in TargetChoices \cup {CANVAS_WIDTH \div 2} : MouseMove(x)
  \/ \E orphan \in BOOLEAN, gap \in Gaps :
       \E c \in SpawnDraws(gap), r \in LifeDraws : Tick(orphan, gap, c, r)
  \/ \E i \in 1..MaxPendingEnds, ok \in BOOLEAN :
       \E r \in SubmitLifeDraws(i) : SubmitDone(i, ok, r)

Spec == Init /\ [][Next]_vars

(* ------------------------------------------------------------------ *)
(* Long playthroughs: a game without a leaderboard is started and left  *)
(* to run with the pointer at rest.  Among the first MaxShortFrames      *)
(* frames of the playthrough a frame lasts 16.67 ms or 50 ms, so that   *)
(* the timers meet their thresholds exactly or overshoot them; later a  *)
(* frame lasts 50 ms or 100 ms, which the loop cuts to 50 ms.           *)
(* ------------------------------------------------------------------ *)
\* frames simulated in a playthrough of SpecLong, which draws every spawn
\* choice, and of SpecRamp, which always draws the puck down the middle
MaxLongFrames == 900
MaxRampFrames == 9400
MaxShortFrames == 120
LongGaps == IF state.frameCount < MaxShortFrames * SCALE THEN {FRAME, 3 * FRAME} ELSE {3 * FRAME, 6 * FRAME}

InitNoBoard ==
  /\ Init
  /\ ~leaderboard.present

StartIdle ==
  /\ isIdle(state)
  /\ Start

LongTick ==
  \E gap \in LongGaps :
    \E c \in SpawnDraws(gap) :
      TickWithin(MaxLongFrames, FALSE, gap, c, CHOOSE r \in LifeChoices : r = 0)

NextLong ==
  \/ StartIdle
  \/ LongTick

SpecLong == InitNoBoard /\ [][NextLong]_vars

\* the frame the loop has requested can fire: LongTick is enabled
LongTickReady ==
  /\ raf.current
  /\ isRunning(state) => state.frameCount < SCALE * MaxLongFrames
\* The same playthroughs when the display keeps delivering the frame the loop
\* has requested: weak fairness of LongTick, WF_vars(LongTick), with the
\* enabling condition of the tick written out.
SpecFall == SpecLong /\ ([]<>(~LongTickReady) \/ []<><<LongTick>>_vars)

RampTick ==
  \E gap \in LongGaps :
    TickWithin(MaxRampFrames, FALSE, gap, CHOOSE c \in SpawnChoices : c.dev = 0,
               CHOOSE r \in LifeChoices : r = 0)

NextRamp ==
  \/ StartIdle
  \/ RampTick

SpecRamp == InitNoBoard /\ [][NextRamp]_vars

(* ------------------------------------------------------------------ *)
(* Pausing against the wall clock: a game without a leaderboard, whose  *)
(* frame callbacks fire one frame (16.67 ms) after the previous task or *)
(* in the same frame, and which is paused and resumed at any moment;    *)
(* wall-clock time beyond that passes while it is paused.               *)
(* ------------------------------------------------------------------ *)
\* frames simulated, and frames of wall-clock time waited in one pause
MaxClockFrames == 130
MaxWaitFrames == 4
WaitChoices == {2 * FRAME}

\* d clock units pass while the game is paused and no task runs
Wait(d) ==
  /\ isPaused(state)
  /\ sinceLastTime + d <= MaxWaitFrames * FRAME
  /\ sinceLastTime' = sinceLastTime + d
  /\ resolved' = <<>>
  /\ UNCHANGED <<state, pucks, confetti, goalie, goal, input, leaderboard, endOverlay,
                 buttonBounds, raf, pendingEnds, initPending, apiBest, endInvoked, atEnd, restarts>>

ClockTick ==
  \E orphan \in BOOLEAN, gap \in {0, FRAME} :
    \E c \in SpawnDraws(gap) :
      TickWithin(MaxClockFrames, orphan, gap, c, CHOOSE r \in LifeChoices : r = 0)

NextClock ==
  \/ StartIdle
  \/ TogglePause
  \/ \E d \in WaitChoices : Wait(d)
  \/ ClockTick

SpecClock == InitNoBoard /\ [][NextClock]_vars

(* ------------------------------------------------------------------ *)
(* A display that stalls: a game without a leaderboard in which wall-   *)
(* clock time passes between the tasks, two frames (33.3 ms) at a time, *)
(* while the game is playing or paused; a frame callback fires with the *)
(* time of its task as timestamp.                                       *)
(* ------------------------------------------------------------------ *)
\* frames simulated, and frames of wall-clock time between two tasks
MaxStallFrames == 60
MaxStallLength == 4
StallChoices == {2 * FRAME}

\* d clock units pass while the game is started and no task runs
Stall(d) ==
  /\ isRunning(state) \/ isPaused(state)
  /\ sinceLastTime + d <= MaxStallLength * FRAME
  /\ sinceLastTime' = sinceLastTime + d
  /\ resolved' = <<>>
  /\ UNCHANGED <<state, pucks, confetti, goalie, goal, input, leaderboard, endOverlay,
                 buttonBounds, raf, pendingEnds, initPending, apiBest, endInvoked, atEnd, restarts>>

StallTick ==
  \E orphan \in BOOLEAN :
    \E c \in SpawnDraws(0) :
      TickWithin(MaxStallFrames, orphan, 0, c, CHOOSE r \in LifeChoices : r = 0)

NextStall ==
  \/ StartIdle
  \/ TogglePause
  \/ \E d \in StallChoices : Stall(d)
  \/ StallTick

SpecStall == InitNoBoard /\ [][NextStall]_vars

(* ------------------------------------------------------------------ *)
(* A steady display: a game without a leaderboard whose frame callbacks *)
(* fire one frame (16.67 ms) apart, so that every tick has delta = 1;   *)
(* the pointer is placed while the idle overlay shows.                  *)
(* ------------------------------------------------------------------ *)
\* frames simulated
MaxSteadyFrames == 240

SteadyTick ==
  \E c \in SpawnDraws(FRAME) :
    TickWithin(MaxSteadyFrames, FALSE, FRAME, c, CHOOSE r \in LifeChoices : r = 0)

NextSteady ==
  \/ StartIdle
  \/ \E x \in TargetChoices \cup {CANVAS_WIDTH \div 2} : MouseMove(x)
  \/ SteadyTick

SpecSteady == InitNoBoard /\ [][NextSteady]_vars

(* ------------------------------------------------------------------ *)
(* The widget: createGame(container, options).  It drops the            *)
(* leaderboard body unless options.showLeaderboard, builds gameOptions   *)
(* = {confetti: options.confetti !== false} and calls                   *)
(* new Game(canvas, elements, gameOptions).  The constructor of Game     *)
(* takes (canvas, elements): the third argument reaches no field of the *)
(* game, so the game created is the one of Init, with a leaderboard     *)
(* exactly when options.showLeaderboard.                                *)
(* ------------------------------------------------------------------ *)
createGame(options) ==
  /\ Init
  /\ leaderboard.present <=> options.showLeaderboard

\* a widget without leaderboard created with the option confetti: false, on a
\* steady display
InitNoConfetti == createGame([confetti |-> FALSE, showLeaderboard |-> FALSE])

SpecNoConfetti == InitNoConfetti /\ [][NextSteady]_vars

(* ------------------------------------------------------------------ *)
(* Properties                                                           *)
(* ------------------------------------------------------------------ *)

\* C1: lives stays within 0..INITIAL_LIVES after every step, and a step from
\* Playing to Playing never raises it.
C1_LivesInRange ==
  [][/\ state'.lives \in 0..INITIAL_LIVES
     /\ (isRunning(state) /\ isRunning(state')) => state'.lives <= state.lives]_vars

\* C2: within a playthrough Game.end() has been invoked exactly once when lives
\* has reached 0, and not at all before that.
C2_EndInvokedOnce ==
  /\ state.lives <= 0 => endInvoked = 1
  /\ state.lives > 0 => endInvoked = 0

\* C3: once lives is 0 the status is Ended whenever a frame callback can run
\* next, that is in every state between two tasks.
C3_EndedBeforeNextTick == state.lives <= 0 => isEnded(state)

C4_AtReset ==
  /\ state.score = 0
  /\ state.lives = INITIAL_LIVES
  /\ state.spawnInterval = INITIAL_SPAWN_INTERVAL
  /\ state.speedBase = INITIAL_SPEED
  /\ pucks = <<>>
  /\ confetti = <<>>

\* C4: after a restart the game stays Idle with score, lives, difficulty, pucks
\* and particles at their reset values until it is started, and the playthrough
\* started after a restart is not ended while it still has lives.
C4_RestartStaysReset ==
  [][/\ (restarts > 0 /\ isIdle(state) /\ C4_AtReset /\ ~isRunning(state'))
          => (isIdle(state') /\ C4_AtReset')
     /\ (restarts > 0 /\ isRunning(state) /\ state'.lives > 0) => ~isEnded(state')]_vars

\* C5: from the first invocation of Game.end() until the next restart, score
\* and lives keep the values they had at that invocation.
C5_FrozenAfterEnd ==
  atEnd # <<>> => (state.score = atEnd[1].score /\ state.lives = atEnd[1].lives)

\* C6: the status changes only Idle -> Playing, Playing -> Paused,
\* Paused -> Playing, Playing -> Ended, or to Idle by a restart (the play-again
\* click is a restart followed by a start: Ended -> Playing).
C6_StatusTransitions ==
  [][state'.status # state.status =>
       \/ isIdle(state) /\ isRunning(state')
       \/ isRunning(state) /\ isPaused(state')
       \/ isPaused(state) /\ isRunning(state')
       \/ isRunning(state) /\ isEnded(state')
       \/ isIdle(state') /\ restarts' # restarts
       \/ isEnded(state) /\ isRunning(state') /\ restarts' # restarts]_vars

C7_AfterRestart ==
  /\ isIdle(state)
  /\ state.score = 0
  /\ state.lives = INITIAL_LIVES
  /\ state.spawnInterval = INITIAL_SPAWN_INTERVAL
  /\ state.speedBase = INITIAL_SPEED
  /\ state.spawnTimer = 0
  /\ state.difficultyTimer = 0
  /\ state.frameCount = 0
  /\ state.catchFlash = 0
  /\ state.catchText = <<>>
  /\ pucks = <<>>
  /\ Confetti_count(confetti) = 0
  /\ goalie.x = CANVAS_WIDTH \div 2
  /\ goalie.catchAnimation = 0
  /\ goalie.catchFlash = 0
  /\ goal.goalFlash = 0
  /\ input.targetX = CANVAS_WIDTH \div 2
  /\ ~input.left
  /\ ~input.right
  /\ ~raf.id

\* C7: restart(), called in any status, leaves the game Idle with score 0,
\* lives INITIAL_LIVES, initial spawn interval and fall speed, zero timers and
\* frame count, no catch flash or text, no pucks, no particles, the goalie
\* centred with zero animation scalars, no goal flash, the input target centred
\* with no key held, and no frame callback recorded.
C7_RestartResetsAll == [][Restart => C7_AfterRestart']_vars

\* a restart has just acted on a playthrough that lost its last life and whose
\* end() is still waiting for its submission
C7_Witness ==
  /\ restarts = 1
  /\ pendingEnds # <<>>
  /\ C7_AfterRestart

\* C8: a restart (alone or as the first half of play-again) leaves bestScore as
\* it was.
C8_RestartKeepsBest == [][restarts' # restarts => state'.bestScore = state.bestScore]_vars

\* C9: bestScore never decreases, and when the playthrough reaches Ended it is
\* the larger of the bestScore and the score held when end() was invoked.
C9_BestIsMaxAtEnd ==
  [][/\ state'.bestScore >= state.bestScore
     /\ (~isEnded(state) /\ isEnded(state') /\ atEnd' # <<>>)
          => state'.bestScore = Max(atEnd'[1].bestScore, atEnd'[1].score)]_vars

\* C10: the end overlay is the record overlay exactly when the score at the end
\* exceeds the bestScore the state held when end() was invoked.
C10_RecordIffAboveBest ==
  (endOverlay # <<>> /\ atEnd # <<>>)
    => (endOverlay[1].isAllTime <=> atEnd[1].score > atEnd[1].bestScore)

\* the pucks among those just filtered out that carry the caught / scored flag
C11_CaughtNow(ps) == {i \in 1..Len(ps) : ps[i].caught}
C11_ScoredNow(ps) == {i \in 1..Len(ps) : ps[i].scored}

\* C11: no puck leaves play flagged both caught and scored, and in every step
\* but a restart score grows by one per puck that leaves caught and lives falls
\* by one per puck that leaves scored: a puck counts once, for one counter, or
\* (removed off screen, unflagged) for none.
C11_OneOutcomePerPuck ==
  [][/\ \A i \in 1..Len(resolved') : ~(resolved'[i].caught /\ resolved'[i].scored)
     /\ restarts' = restarts =>
          /\ state'.score - state.score = Cardinality(C11_CaughtNow(resolved'))
          /\ state.lives - state'.lives = Cardinality(C11_ScoredNow(resolved'))]_vars

\* a tick in which one puck left caught after an earlier one had been scored
C11_Witness ==
  /\ C11_CaughtNow(resolved) # {}
  /\ state.score >= 1
  /\ state.lives < INITIAL_LIVES

\* C12: between tasks Game.pucks holds no puck that is caught, scored or marked
\* for removal and none beyond the off-screen margin.
C12_NoFlaggedPuckKept ==
  \A i \in 1..Len(pucks) :
    /\ ~pucks[i].caught
    /\ ~pucks[i].scored
    /\ ~pucks[i].markedForRemoval
    /\ ~isOffScreen(pucks[i])

\* a tick has just removed a flagged puck while another puck stays in play
C12_Witness ==
  /\ \E i \in 1..Len(resolved) : resolved[i].markedForRemoval
  /\ pucks # <<>>

C13_InGoalOpening(p) ==
  /\ p.x >= GOAL_X - GOAL_WIDTH \div 2
  /\ p.x <= GOAL_X + GOAL_WIDTH \div 2
  /\ p.y >= GOAL_Y
  /\ p.y <= GOAL_Y + GOAL_HEIGHT

C13_RegularBursts(ps) == Cardinality({i \in 1..Len(ps) : ~ps[i].gold})

\* C13: a puck whose centre is inside the goal opening when it is tested leaves
\* scored and not caught; in a tick whose resolved pucks are all such pucks,
\* lives falls by one per puck, score is unchanged, the goal flash is 1 less the
\* decay of that tick (triggerGoal sets 1, Goal.update follows in the same
\* tick), and nothing of a catch happens: the goalie's catch scalars do not
\* rise, no confetti burst is added, no catch text is set.
C13_GoalTestWins ==
  [][/\ \A i \in 1..Len(resolved') :
          C13_InGoalOpening(resolved'[i]) => (resolved'[i].scored /\ ~resolved'[i].caught)
     /\ (C11_ScoredNow(resolved') # {} /\ C11_CaughtNow(resolved') = {}) =>
          /\ state'.lives = state.lives - Cardinality(C11_ScoredNow(resolved'))
          /\ state'.score = state.score
          /\ goal'.goalFlash =
               Max(0, SCALE - Mul(CATCH_FLASH_DECAY, state'.frameCount - state.frameCount))
          /\ goalie'.catchAnimation <= Max(0, goalie.catchAnimation)
          /\ goalie'.catchFlash <= Max(0, goalie.catchFlash)
          /\ C13_RegularBursts(confetti') <= C13_RegularBursts(confetti)
          /\ state'.catchText = <<>> \/
               (state.catchText # <<>> /\ state'.catchText[1].value = state.catchText[1].value)]_vars

\* a tick has just scored a puck that was inside the goal opening
C13_Witness ==
  /\ \E i \in 1..Len(resolved) : resolved[i].scored /\ C13_InGoalOpening(resolved[i])
  /\ goal.goalFlash > 0
  /\ state.lives < INITIAL_LIVES

\* C14: outside a restart lives changes only in a step that scores pucks, by
\* exactly one per puck scored, every scored puck was inside the goal opening,
\* and a step that only removes pucks that left the screen changes neither
\* lives nor score.
C14_LivesOnlyByGoal ==
  [][restarts' = restarts =>
       /\ state.lives - state'.lives = Cardinality(C11_ScoredNow(resolved'))
       /\ \A i \in 1..Len(resolved') :
            resolved'[i].scored => C13_InGoalOpening(resolved'[i])
       /\ (resolved' # <<>> /\ \A i \in 1..Len(resolved') : ~resolved'[i].markedForRemoval)
            => (state'.lives = state.lives /\ state'.score = state.score)]_vars

\* a tick has just removed a puck that left the screen unflagged
C14_Witness ==
  \E i \in 1..Len(resolved) :
    /\ ~resolved[i].markedForRemoval
    /\ isOffScreen(resolved[i])

\* C15: between two resets spawnInterval never grows and stays within
\* [MIN_SPAWN_INTERVAL, INITIAL_SPAWN_INTERVAL], and speedBase never falls and
\* stays within [INITIAL_SPEED, MAX_SPEED].
C15_DifficultyMonotoneBounded ==
  [][/\ state'.spawnInterval \in MIN_SPAWN_INTERVAL..INITIAL_SPAWN_INTERVAL
     /\ state'.speedBase \in INITIAL_SPEED..MAX_SPEED
     /\ restarts' = restarts =>
          /\ state'.spawnInterval <= state.spawnInterval
          /\ state'.speedBase >= state.speedBase]_vars

\* play goes on after both the floor and the ceiling have been reached
C15_Witness ==
  /\ isRunning(state)
  /\ state.spawnInterval = MIN_SPAWN_INTERVAL
  /\ state.speedBase = MAX_SPEED
  /\ state.difficultyTimer > 0

\* the elapsed time a step simulated, from the frames it counted
C16_Elapsed == ((state'.frameCount - state.frameCount) * FRAME) \div SCALE

\* C16: a tick of a running game applies one ramp step exactly when the
\* difficulty timer plus the elapsed time reaches DIFFICULTY_RAMP_INTERVAL (timer
\* to 0, spawnInterval down by one step but not below the floor, speedBase up by
\* one step but not above the ceiling); otherwise only the timer grows by the
\* elapsed time.
C16_RampStep ==
  [][(isRunning(state) /\ restarts' = restarts) =>
       IF state.difficultyTimer + C16_Elapsed >= DIFFICULTY_RAMP_INTERVAL
         THEN /\ state'.difficultyTimer = 0
              /\ state'.spawnInterval =
                   Max(MIN_SPAWN_INTERVAL, state.spawnInterval - SPAWN_INTERVAL_DECREASE)
              /\ state'.speedBase = Min(MAX_SPEED, state.speedBase + SPEED_INCREASE)
         ELSE /\ state'.difficultyTimer = state.difficultyTimer + C16_Elapsed
              /\ state'.spawnInterval = state.spawnInterval
              /\ state'.speedBase = state.speedBase]_vars

\* a ramp step has just been cut by the ceiling, at the floor of the interval
C16_Witness ==
  /\ state.frameCount > 0
  /\ state.difficultyTimer = 0
  /\ state.spawnInterval = MIN_SPAWN_INTERVAL
  /\ state.speedBase = MAX_SPEED

\* the simulated time of the playthrough so far, from the frames counted
C17_Played(s) == (s.frameCount * FRAME) \div SCALE

\* C17: in a fresh playthrough spawnInterval is INITIAL_SPAWN_INTERVAL after
\* every tick that leaves the simulated time below DIFFICULTY_RAMP_INTERVAL, and
\* one step lower after the tick that first brings it to that interval or beyond.
C17_FirstRampAtInterval ==
  [][restarts' = 0 =>
       /\ C17_Played(state') < DIFFICULTY_RAMP_INTERVAL
            => state'.spawnInterval = INITIAL_SPAWN_INTERVAL
       /\ (C17_Played(state) < DIFFICULTY_RAMP_INTERVAL
             /\ C17_Played(state') >= DIFFICULTY_RAMP_INTERVAL)
            => state'.spawnInterval =
                 Max(MIN_SPAWN_INTERVAL, INITIAL_SPAWN_INTERVAL - SPAWN_INTERVAL_DECREASE)]_vars

\* the tick that passed the interval, with an overshoot, has just run
C17_Witness ==
  /\ C17_Played(state) > DIFFICULTY_RAMP_INTERVAL
  /\ C17_Played(state) < DIFFICULTY_RAMP_INTERVAL + ELAPSED_CAP
  /\ state.spawnInterval = INITIAL_SPAWN_INTERVAL - SPAWN_INTERVAL_DECREASE

\* C18: on the GameState of every reachable state, pause() outside Playing,
\* resume() outside Paused, togglePause() in Idle or Ended and start() outside
\* Idle return the state unchanged, and pause() twice equals pause() once.
C18_LifecycleNoOps ==
  /\ ~isRunning(state) => GameState_pause(state) = state
  /\ ~isPaused(state) => GameState_resume(state) = state
  /\ (isIdle(state) \/ isEnded(state)) => GameState_togglePause(state) = state
  /\ ~isIdle(state) => GameState_start(state) = state
  /\ GameState_pause(GameState_pause(state)) = GameState_pause(state)

\* a paused game in mid-play, on which pause() and start() are the calls ignored
C18_Witness ==
  /\ isPaused(state)
  /\ state.score > 0
  /\ pucks # <<>>

\* C19: start() changes the game only from Idle, where it moves to Playing and
\* schedules exactly one frame callback; from any other status it changes neither
\* the state nor the scheduled callbacks.
C19_StartOnlyFromIdle ==
  [][Start =>
       IF isIdle(state)
         THEN /\ isRunning(state')
              /\ PendingFrames(raf') = PendingFrames(raf) + 1
         ELSE /\ state' = state
              /\ raf' = raf]_vars

C20_Frozen ==
  /\ state'.score = state.score
  /\ state'.lives = state.lives
  /\ state'.spawnInterval = state.spawnInterval
  /\ state'.speedBase = state.speedBase
  /\ state'.spawnTimer = state.spawnTimer
  /\ state'.difficultyTimer = state.difficultyTimer
  /\ state'.frameCount = state.frameCount
  /\ pucks' = pucks
  /\ confetti' = confetti

\* C20: a step that starts and ends Paused (a frame callback, or time passing)
\* changes none of score, lives, difficulty, timers, frameCount, pucks and
\* particles; and with frame callbacks one frame apart, no tick of the running
\* game simulates more than one frame, however long the game was paused before.
C20_PauseFreezesTime ==
  [][/\ (isPaused(state) /\ isPaused(state')) => C20_Frozen
     /\ isRunning(state) =>
          /\ state'.frameCount - state.frameCount <= SCALE
          /\ state'.difficultyTimer <= state.difficultyTimer + FRAME
          /\ state'.spawnTimer <= state.spawnTimer + FRAME]_vars

\* a game paused in mid-play, with pucks and particles, after wall-clock time
\* has passed in the pause
C20_Witness ==
  /\ isPaused(state)
  /\ sinceLastTime > 0
  /\ pucks # <<>>
  /\ confetti # <<>>

\* an animation-frame callback of the game fires in this step
C21_TickFires ==
  \E orphan \in BOOLEAN, gap \in Gaps :
    \E c \in SpawnDraws(gap), r \in LifeDraws : Tick(orphan, gap, c, r)

\* C21: once togglePause() has paused the game no frame callback runs until
\* the game is resumed: the callback that was scheduled when the pause was
\* requested has been cancelled.
C21_NoTickWhilePaused ==
  [][/\ (isRunning(state) /\ isPaused(state')) => PendingFrames(raf') = 0
     /\ isPaused(state) => ~C21_TickFires]_vars

\* C22: after restart() no frame callback that was scheduled before it is left
\* to run: none is pending after the restart button, and after "play again"
\* (restart() then start()) only the one that start() has just requested.
C22_RestartCancelsAll ==
  [][restarts' > restarts =>
       PendingFrames(raf') = (IF isRunning(state') THEN 1 ELSE 0)]_vars

\* the spawner fired in this step: a tick of the running game with elapsed
\* time, after which the spawn timer is back at 0
C25_SpawnFired ==
  /\ isRunning(state)
  /\ state'.frameCount > state.frameCount
  /\ state'.spawnTimer = 0

\* C25: a puck the spawner emits in a tick is neither moved nor tested in that
\* tick: after the tick it is the last of the pucks, still at its spawn place
\* and unflagged.
C25_NewPuckRestsOneTick ==
  [][C25_SpawnFired =>
       /\ pucks' # <<>>
       /\ LET n == pucks'[Len(pucks')]
          IN /\ \E c \in SpawnChoices : n.x = c.x /\ n.y = c.y
             /\ ~n.caught /\ ~n.scored /\ ~n.markedForRemoval]_vars

\* C27: in every state the session's catchFlash, the goal's goalFlash, and the
\* goalie's catchFlash and catchAnimation lie within [0, 1].
C27_EffectsInUnitRange ==
  /\ state.catchFlash \in 0..SCALE
  /\ goal.goalFlash \in 0..SCALE
  /\ goalie.catchFlash \in 0..SCALE
  /\ goalie.catchAnimation \in 0..SCALE

\* the difficulty ramp stepped in this step: a tick of the running game with
\* elapsed time, after which the difficulty timer is back at 0
C24_RampFired ==
  /\ isRunning(state)
  /\ state'.frameCount > state.frameCount
  /\ state'.difficultyTimer = 0

\* C24: in a tick in which the ramp steps, the spawner works with the
\* difficulty after the step: it fires exactly when the spawn timer has reached
\* the new spawn interval, and the puck it emits has the new fall speed.
C24_DifficultyBeforeSpawner ==
  [][C24_RampFired =>
       LET elapsedMs == ((state'.frameCount - state.frameCount) * FRAME) \div SCALE
       IN /\ C25_SpawnFired <=> (state.spawnTimer + elapsedMs >= state'.spawnInterval)
          /\ C25_SpawnFired =>
               /\ pucks' # <<>>
               /\ \E c \in SpawnChoices :
                    /\ pucks'[Len(pucks')].vy = Puck_new(state'.speedBase, c).vy
                    /\ Abs(pucks'[Len(pucks')].vx) = Abs(Puck_new(state'.speedBase, c).vx)]_vars

\* C23: no step advances the spawn timer or the difficulty timer by more than
\* 50 ms or frameCount by more than 3 frames (delta <= 3), and a tick of the
\* running game simulates the time since lastTime cut to 50 ms, whether it
\* follows start(), a resume or another tick.
C23_ElapsedCapped ==
  [][/\ state'.frameCount - state.frameCount <= 3 * SCALE
     /\ state'.spawnTimer - state.spawnTimer <= ELAPSED_CAP
     /\ state'.difficultyTimer - state.difficultyTimer <= ELAPSED_CAP
     /\ (isRunning(state) /\ isRunning(state') /\ sinceLastTime' = 0) =>
          state'.frameCount - state.frameCount
            = (Min(sinceLastTime, ELAPSED_CAP) * SCALE) \div FRAME]_vars

\* the first tick after start() came 66.7 ms after it and simulated 50 ms (a
\* tick of SpecStall simulates 0, 33.3 or 50 ms, so three frames on the
\* counter with 50 ms on the timer are one tick that the cap cut)
C23_Witness ==
  /\ isRunning(state)
  /\ sinceLastTime = 0
  /\ state.frameCount = 3 * SCALE
  /\ state.difficultyTimer = ELAPSED_CAP

\* the pucks among ps that were caught
C26_Caught(ps) == SelectSeq(ps, LAMBDA p : p.caught)
\* the effect updates a catch text has been through, at delta = 1
C26_Updates(s) == (CATCH_TEXT_DURATION - s.catchText[1].ttl) \div SCALE

\* the pucks among ps that entered the goal
C26_Scored(ps) == SelectSeq(ps, LAMBDA p : p.scored)
\* effect updates at delta = 1 after which a flash of 1 has faded: ceil(1 / CATCH_FLASH_DECAY)
C26_FadeUpdates == (SCALE + CATCH_FLASH_DECAY - 1) \div CATCH_FLASH_DECAY

\* what C26 says of the flash and the text at delta = 1, in the state after a
\* step: a catch text has been through 1 to 29 effect updates since its catch
\* (the update of the catching tick is the first), the flash is 0 from the
\* 12th of them on and while there is no text, a flash of 0 stays 0 without a
\* catch, and a tick without a catch takes the text one update further or, at
\* the 30th, discards it
C26_Decay ==
  /\ state'.catchText # <<>> =>
       /\ C26_Updates(state') \in 1..(CATCH_TEXT_DURATION \div SCALE - 1)
       /\ C26_Updates(state') >= C26_FadeUpdates => state'.catchFlash = 0
  /\ state'.catchText = <<>> => state'.catchFlash = 0
  /\ (state.catchFlash = 0 /\ state'.score = state.score) => state'.catchFlash = 0
  /\ (/\ isRunning(state) /\ state'.frameCount > state.frameCount
      /\ state.catchText # <<>> /\ state'.score = state.score) =>
       IF C26_Updates(state) = CATCH_TEXT_DURATION \div SCALE - 1
         THEN state'.catchText = <<>>
         ELSE /\ state'.catchText # <<>>
              /\ C26_Updates(state') = C26_Updates(state) + 1

\* C26 as stated: a tick that catches exactly one puck raises score by 1,
\* leaves lives unchanged and sets catchFlash to 1 (0.91 after the effect
\* update of that tick) and the catch text; then the flash and the text decay
\* as C26_Decay says.
C26_CatchLeavesLives ==
  [][/\ Len(C26_Caught(resolved')) = 1 =>
          /\ state'.score = state.score + 1
          /\ state'.lives = state.lives
          /\ state'.catchFlash = SCALE - CATCH_FLASH_DECAY
          /\ state'.catchText = <<[ttl |-> CATCH_TEXT_DURATION - SCALE, value |-> state'.score]>>
     /\ C26_Decay]_vars

\* C26 amended: as above, but lives falls by the number of pucks that entered
\* the goal in the same tick (it is unchanged when none did).
C26_CatchEffects ==
  [][/\ Len(C26_Caught(resolved')) = 1 =>
          /\ state'.score = state.score + 1
          /\ state'.lives = state.lives - Len(C26_Scored(resolved'))
          /\ state'.catchFlash = SCALE - CATCH_FLASH_DECAY
          /\ state'.catchText = <<[ttl |-> CATCH_TEXT_DURATION - SCALE, value |-> state'.score]>>
     /\ C26_Decay]_vars

\* 29 effect updates after the only catch so far: the text is in its last
\* tick and the flash has long faded
C26_Witness ==
  /\ isRunning(state)
  /\ state.score = 1
  /\ state.catchText # <<>>
  /\ state.catchText[1].ttl = SCALE
  /\ state.catchFlash = 0

\* C28: every puck in play, and every puck the last tick removed, has its
\* squash within [0, squashMax].
C28_SquashInRange ==
  /\ \A i \in 1..Len(pucks) : pucks[i].squash >= 0 /\ pucks[i].squash <= SQUASH_MAX
  /\ \A i \in 1..Len(resolved) : resolved[i].squash >= 0 /\ resolved[i].squash <= SQUASH_MAX

\* a puck in play that has passed the goalie and is just above the goal line
C28_Witness ==
  \E i \in 1..Len(pucks) :
    /\ pucks[i].y + PUCK_RADIUS < GOAL_Y
    /\ GOAL_Y - (pucks[i].y + PUCK_RADIUS) < 20 * SCALE

\* C29: once the game is Ended a frame callback changes only the particles
\* (and what the loop itself keeps: lastTime, the scheduled callback and the
\* overlay buttons), it requests another frame exactly while particles remain,
\* and the particles can drain: whenever an Ended game has particles, a frame
\* callback is pending, whichever way Ended was reached.
C29_EndedDrains ==
  [][/\ (isEnded(state) /\ C21_TickFires) =>
          /\ UNCHANGED <<state, pucks, goalie, goal, input, leaderboard, endOverlay>>
          /\ (PendingFrames(raf') = PendingFrames(raf)) <=> (confetti' # <<>>)
          /\ (PendingFrames(raf') = PendingFrames(raf) - 1) <=> (confetti' = <<>>)
     /\ (isEnded(state') /\ confetti' # <<>>) => PendingFrames(raf') > 0]_vars

\* C30: in a widget created with confetti: false the particle collection is
\* empty in every state.
C30_NoParticles == confetti = <<>>

\* the simulated Playing time of the playthrough, in clock units
C31_Time == (state.frameCount * FRAME) \div SCALE
\* the pucks emitted so far in a playthrough in which no puck has left the
\* screen unflagged: those caught, those scored and those still in play
C31_Emitted == state.score + (INITIAL_LIVES - state.lives) + Len(pucks)

C32_OneCallbackPending == PendingFrames(raf) <= 1

\* the elapsed time of the tick taken in this step, in clock units
C33_Elapsed == ((state'.frameCount - state.frameCount) * FRAME) \div SCALE
\* the pucks the tick of this step has added: those in play or just removed
\* after it, less those in play before it
C33_Added == Len(pucks') + Len(resolved') - Len(pucks)

\* C33: a tick of the running game emits a puck exactly when the spawn timer
\* plus the elapsed time has reached the spawn interval, and then the timer
\* restarts from 0; otherwise the timer takes up the elapsed time.  No tick adds
\* more than one puck.  The timer thus holds the time since the previous spawn,
\* which at a spawn is no less than the spawn interval in force.
C33_SpawnWhenDue ==
  [][(isRunning(state) /\ state'.frameCount > state.frameCount) =>
       /\ C33_Added \in {0, 1}
       /\ IF state.spawnTimer + C33_Elapsed >= state.spawnInterval
            THEN C33_Added = 1 /\ state'.spawnTimer = 0
            ELSE C33_Added = 0 /\ state'.spawnTimer = state.spawnTimer + C33_Elapsed]_vars

\* a spawn has just been made by a timer that overshot a spawn interval which
\* the ramp had already shortened
C33_Witness ==
  /\ isRunning(state)
  /\ state.spawnTimer = 0
  /\ state.spawnInterval < INITIAL_SPAWN_INTERVAL
  /\ pucks # <<>>
  /\ ~pucks[Len(pucks)].markedForRemoval

\* the delta of the tick taken in this step
C34_Delta == state'.frameCount - state.frameCount
\* puck q after the tick is puck p before it, moved down by its own unchanged
\* vertical velocity
C34_Fell(p, q) ==
  /\ q.vy = p.vy
  /\ q.y = p.y + Mul(p.vy, C34_Delta)
  /\ q.y > p.y
\* puck q was created in this tick, at the fall speed the tick began with
C34_Created(q) ==
  \E c \in SpawnChoices :
    /\ q.vy = Puck_new(state.speedBase, c).vy
    /\ q.y = c.y + Mul(q.vy, C34_Delta)
\* the pucks the tick of this step has handled
C34_After == pucks' \o resolved'

\* C34: every puck has a vertical velocity of at least half the fall speed at
\* its creation, hence positive, which never changes; in a tick of the running
\* game with positive delta every puck moves down by that velocity; a puck
\* that stays in play is unflagged and not below the off-screen line, and a
\* puck that leaves is caught, scored or off screen.  So a puck that is in
\* play descends, tick after tick, by no less than half the initial fall speed
\* towards a line below which it cannot stay: every puck is removed after a
\* bounded number of such ticks.
C34_PucksFall ==
  [][/\ \A i \in 1..Len(pucks') :
          /\ pucks'[i].vy >= INITIAL_SPEED \div 2
          /\ pucks'[i].y <= CANVAS_HEIGHT + PUCK_OFFSCREEN_MARGIN
          /\ ~pucks'[i].caught /\ ~pucks'[i].scored
     /\ (isRunning(state) /\ C34_Delta > 0) =>
          /\ \A j \in 1..Len(C34_After) :
               \/ \E i \in 1..Len(pucks) : C34_Fell(pucks[i], C34_After[j])
               \/ /\ C34_Created(C34_After[j])
                  /\ C34_After[j].vy >= state.speedBase \div 2
                  /\ C34_After[j].vy > 0
          /\ Len(C34_After) >= Len(pucks)
          /\ \A j \in 1..Len(resolved') :
               resolved'[j].caught \/ resolved'[j].scored \/ isOffScreen(resolved'[j])]_vars

\* the frame count at which puck p was created: its velocity tells the spawn
\* choice and the fall speed it was created with, its descent the frames since
C34_Birth(p) ==
  LET kc == CHOOSE kc \in (0..2) \X SpawnChoices :
              /\ p.vy = Puck_new(INITIAL_SPEED + kc[1] * SPEED_INCREASE, kc[2]).vy
              /\ Abs(p.vx) = Abs(Puck_new(INITIAL_SPEED + kc[1] * SPEED_INCREASE, kc[2]).vx)
  IN state.frameCount - ((p.y - kc[2].y) \div p.vy) * SCALE
\* the puck created at frame count b is in play
C34_InPlay(b) == \E i \in 1..Len(pucks) : C34_Birth(pucks[i]) = b
\* the frame counts at which the first puck of a playthrough can be created
C34_FirstBirths == {45 * SCALE, 46 * SCALE, 47 * SCALE}
\* the first puck of the playthrough leaves play while the game is running
C34_FirstPuckLeaves ==
  \A b \in C34_FirstBirths : C34_InPlay(b) ~> (~C34_InPlay(b) \/ ~isRunning(state))

\* C34, with the case the ranking argument is about played out: pucks fall as
\* described in every step, and when frames keep coming the first puck of the
\* playthrough, wherever it was aimed, does leave play.
C34_PucksFallAndLeave == C34_PucksFall /\ C34_FirstPuckLeaves

\* three pucks are in play, the oldest of them already below the goal line
\* and about to leave the screen
C34_Witness ==
  /\ isRunning(state)
  /\ Len(pucks) >= 3
  /\ pucks[1].y > CANVAS_HEIGHT

\* puck p seen from the other side of the field
C35_Mirror(p) == [p EXCEPT !.x = CANVAS_WIDTH - p.x, !.vx = -p.vx]
\* the pucks an update can be given: those in play, those the spawner can
\* create now, and the mirror images of both (a spawn beyond the right edge is
\* the mirror image of one beyond the left edge)
C35_Given ==
  LET ps == {pucks[i] : i \in 1..Len(pucks)} \cup {Puck_new(state.speedBase, c) : c \in SpawnChoices}
  IN ps \cup {C35_Mirror(p) : p \in ps}
C35_Deltas == {0, SCALE, 3 * SCALE}
\* what the claim says of the update of puck p by delta d
C35_Holds(p, d) ==
  LET q == Puck_update(p, d)
      x1 == p.x + Mul(p.vx, d)
  IN /\ q.x >= PUCK_RADIUS /\ q.x <= CANVAS_WIDTH - PUCK_RADIUS
     /\ q.vy = p.vy
     /\ Abs(q.vx) = Abs(p.vx)
     /\ x1 < PUCK_RADIUS => q.vx >= 0
     /\ x1 > CANVAS_WIDTH - PUCK_RADIUS => q.vx <= 0
     /\ (x1 >= PUCK_RADIUS /\ x1 <= CANVAS_WIDTH - PUCK_RADIUS) => q.vx = p.vx /\ q.x = x1

\* C35: an update leaves any puck, also one spawned beyond a side edge,
\* between the walls; at a wall it turns vx into the field and keeps its size
\* and vy, and away from the walls it keeps vx and vy.  So every puck in play,
\* which has been updated in the tick that created it, is between the walls.
C35_PuckStaysBetweenWalls ==
  /\ \A p \in C35_Given : \A d \in C35_Deltas : C35_Holds(p, d)
  /\ \A i \in 1..Len(pucks) :
       pucks[i].x >= PUCK_RADIUS /\ pucks[i].x <= CANVAS_WIDTH - PUCK_RADIUS

\* a puck spawned beyond the left edge has been put at the left wall by the
\* update of the tick that created it, and heads into the field
C35_Witness ==
  \E i \in 1..Len(pucks) :
    /\ pucks[i].x = PUCK_RADIUS
    /\ pucks[i].vx > 0
    /\ \E c \in SpawnChoices : c.x < 0 /\ pucks[i].y = c.y + pucks[i].vy

(* ------------------------------------------------------------------ *)
(* Keyboard play: a game without a leaderboard that is steered with the *)
(* arrow keys.  The keydown and keyup listeners of InputHandler set and *)
(* clear keys.left and keys.right; a key goes down or up before the     *)
(* game is started and then once every KeyPeriod frames, between two    *)
(* frame callbacks that fire one frame (16.67 ms) apart.                *)
(* ------------------------------------------------------------------ *)
\* frames simulated, and frames between two moments at which keys change
MaxKeyFrames == 44
KeyPeriod == 8
KeyNames == {"left", "right"}

\* the keys can change now
KeyMoment == state.frameCount % (KeyPeriod * SCALE) = 0

\* keydown with e.key = ArrowLeft or ArrowRight
KeyDown(k) ==
  /\ KeyMoment
  /\ ~input[k]
  /\ input' = [input EXCEPT ![k] = TRUE]
  /\ resolved' = <<>>
  /\ UNCHANGED <<state, pucks, confetti, goalie, goal, leaderboard, endOverlay,
                 buttonBounds, raf, pendingEnds, initPending, apiBest, endInvoked, atEnd, restarts,
                 sinceLastTime>>

\* keyup with e.key = ArrowLeft or ArrowRight
KeyUp(k) ==
  /\ KeyMoment
  /\ input[k]
  /\ input' = [input EXCEPT ![k] = FALSE]
  /\ resolved' = <<>>
  /\ UNCHANGED <<state, pucks, confetti, goalie, goal, leaderboard, endOverlay,
                 buttonBounds, raf, pendingEnds, initPending, apiBest, endInvoked, atEnd, restarts,
                 sinceLastTime>>

KeyTick ==
  \E c \in SpawnDraws(FRAME) :
    TickWithin(MaxKeyFrames, FALSE, FRAME, c, CHOOSE r \in LifeChoices : r = 0)

NextKeys ==
  \/ StartIdle
  \/ \E k \in KeyNames : KeyDown(k)
  \/ \E k \in KeyNames : KeyUp(k)
  \/ KeyTick

SpecKeys == InitNoBoard /\ [][NextKeys]_vars

\* the target the input tracker delivers to the goalie in the next tick
C36_Target == Input_update(input).targetX
C36_Clamped == clamp(C36_Target, GOALIE_MARGIN, CANVAS_WIDTH - GOALIE_MARGIN)
C36_Deltas == {0, SCALE, 2 * SCALE, 3 * SCALE}

\* C36: whatever target the input tracker delivers, also one far outside the
\* field after a key was held, and for every delta from 0 to 3, the goalie
\* stands within [GOALIE_MARGIN, CANVAS_WIDTH - GOALIE_MARGIN], and an update
\* puts it between where it stood and the clamped target: it moves toward the
\* clamped target and does not pass it.
C36_GoalieFollowsClampedTarget ==
  /\ goalie.x >= GOALIE_MARGIN /\ goalie.x <= CANVAS_WIDTH - GOALIE_MARGIN
  /\ \A d \in C36_Deltas :
       LET x1 == Goalie_update(goalie, C36_Target, d).x
       IN /\ x1 >= GOALIE_MARGIN /\ x1 <= CANVAS_WIDTH - GOALIE_MARGIN
          /\ x1 >= Min(goalie.x, C36_Clamped) /\ x1 <= Max(goalie.x, C36_Clamped)
          /\ (d > 0 /\ Abs(C36_Clamped - goalie.x) >= SCALE) =>
               Abs(C36_Clamped - x1) < Abs(C36_Clamped - goalie.x)

\* the held target has left the field on the left after a long hold of the
\* left key, and the goalie has come within a pixel of the left margin
C36_Witness ==
  /\ isRunning(state)
  /\ input.targetX < 0
  /\ goalie.x < GOALIE_MARGIN + SCALE

\* the change of the held target the claim gives for the keys held
C37_Step(i) ==
  IF i.left /\ ~i.right THEN -KEYBOARD_SPEED
  ELSE IF i.right /\ ~i.left THEN KEYBOARD_SPEED
  ELSE 0

\* C37: a tick of the running game calls update() once: the held target
\* changes by -keyboardSpeed if only left is held, by +keyboardSpeed if only
\* right is held and not at all if both or neither are; the keys stay as they
\* are, the value returned, which the goalie is given, is the held target, and
\* nothing but the held target and the two keys decides it.
C37_UpdateStepsTarget ==
  [][(isRunning(state) /\ state'.frameCount > state.frameCount) =>
       /\ input'.targetX = input.targetX + C37_Step(input)
       /\ input'.left = input.left /\ input'.right = input.right
       /\ DOMAIN input' = {"targetX", "left", "right"}
       /\ goalie'.x = Goalie_update(goalie, input'.targetX,
                                    state'.frameCount - state.frameCount).x]_vars

\* ticks have run with both keys held, after ticks with one key held had moved
\* the held target
C37_Witness ==
  /\ isRunning(state)
  /\ input.left /\ input.right
  /\ input.targetX # CANVAS_WIDTH \div 2
  /\ state.frameCount % (KeyPeriod * SCALE) # 0

\* the ticks a target held within the field needs, with one key held, to carry
\* the goalie's clamped target off the opposite margin
C38_ReturnTicks == GOALIE_MARGIN \div KEYBOARD_SPEED + 1
\* the goalie's clamped target after n more ticks with the keys as they are
C38_ClampedAfter(n) ==
  clamp(input.targetX + n * C37_Step(input), GOALIE_MARGIN, CANVAS_WIDTH - GOALIE_MARGIN)

\* C38: the held target is within the field, [0, CANVAS_WIDTH], however long
\* a direction key has been held; so with only the right key held the goalie's
\* clamped target is off the left margin after at most C38_ReturnTicks ticks,
\* and with only the left key held it is off the right margin likewise.
C38_HeldTargetWithinField ==
  /\ input.targetX >= 0 /\ input.targetX <= CANVAS_WIDTH
  /\ (input.right /\ ~input.left) => C38_ClampedAfter(C38_ReturnTicks) > GOALIE_MARGIN
  /\ (input.left /\ ~input.right) => C38_ClampedAfter(C38_ReturnTicks) < CANVAS_WIDTH - GOALIE_MARGIN

\* C39: a game is created without catch text; after every step a catch text
\* that is present shows the score of that moment and has a time to live above
\* 0 and no more than CATCH_TEXT_DURATION; and after a restart, alone or as the
\* first half of play-again, there is no catch text.
C39_CatchTextShowsScore ==
  /\ state.catchText = <<>>
  /\ [][/\ state'.catchText # <<>> =>
               /\ state'.catchText[1].value = state'.score
               /\ state'.catchText[1].ttl > 0
               /\ state'.catchText[1].ttl <= CATCH_TEXT_DURATION
        /\ restarts' # restarts => state'.catchText = <<>>]_vars

\* the text of the second catch, value 2, is on display
C39_Witness ==
  /\ state.catchText # <<>>
  /\ state.score >= 2
  /\ state.catchText[1].ttl < CATCH_TEXT_DURATION

\* the gold particles among the particles
C40_Gold(particles) == Confetti_count(SelectSeq(particles, LAMBDA g : g.gold))
C40_Plain(particles) == Confetti_count(SelectSeq(particles, LAMBDA g : ~g.gold))
\* the particles that a particle update by the delta of this step leaves alive
C40_Alive == Confetti_update(confetti, state'.frameCount - state.frameCount)
\* the game ends in this step, and the score it ends with is a new record: it
\* is above the bestScore held when the end began
C40_EndsNow == ~isEnded(state) /\ isEnded(state')
C40_RecordNow == C40_EndsNow /\ atEnd' # <<>> /\ atEnd'[1].score > atEnd'[1].bestScore

\* C40: in a step of a started playthrough each catch adds CONFETTI_COUNT
\* particles and nothing else adds any but the end of the game, which adds
\* 3 * CONFETTI_COUNT_GOLD gold particles if the score is a new record and none
\* if it is not; and no particle of the collection has a life of 0 or less.
C40_ParticlesAdded ==
  /\ \A i \in 1..Len(confetti) : confetti[i].life > 0
  /\ [][(restarts' = restarts /\ (isRunning(state) \/ C40_EndsNow)) =>
          /\ C40_Plain(confetti') = C40_Plain(C40_Alive) + CONFETTI_COUNT * (state'.score - state.score)
          /\ C40_Gold(confetti') = C40_Gold(C40_Alive)
                                     + (IF C40_RecordNow THEN 3 * CONFETTI_COUNT_GOLD ELSE 0)]_vars

====
